---- MODULE Spec2Model ----
(***************************************************************************)
(* Document ingestion pipeline of solicitor-brain-v2 (services/api):       *)
(* the upload endpoint, the TaskManager over the RQ queues, the worker     *)
(* tasks (OCR -> chunking -> embeddings -> finalize) and the chunk filter. *)
(***************************************************************************)
EXTENDS Integers, Sequences, FiniteSets, TLC

VARIABLES documents, chunks, files, uploads, jobs, queues,
          model,    \* settings.EMBEDDING_MODEL of the running processes
          cache,    \* the Redis embedding cache: cache key -> serialized vector
          result    \* what the last service call returned

\* the database, the upload directory and the RQ state
pipelineVars == <<documents, chunks, files, uploads, jobs, queues>>

\* the embedding service and the response of the last service call
serviceVars == <<model, cache, result>>

vars == <<documents, chunks, files, uploads, jobs, queues, model, cache, result>>

(***************************************************************************)
(* Bounds of the model                                                     *)
(***************************************************************************)
MaxUploads == 2

MaxJobs == 2

NumWorkers == 2

(***************************************************************************)
(* Values                                                                  *)
(***************************************************************************)
NULL == "null"

\* absent id, absent text / vector, absent meta key
NoId == 0

NoText == <<>>

NoVector == <<>>

NoProgress == -1
\* ended_at of a job that has not ended
NoAge == -1
\* days of age after which the model stops counting
MaxAge == 2

NoResponse == [status_code |-> 0, duplicate |-> FALSE, document_id |-> NoId, job_id |-> NoId]

\* UploadFile.size when the request did not give one (None is falsy, as 0 is)
NoSize == 0

\* settings.MAX_FILE_SIZE = 100 * 1024 * 1024
MAX_FILE_SIZE == 104857600

\* settings.ALLOWED_EXTENSIONS
ALLOWED_EXTENSIONS == {".pdf", ".png", ".jpg", ".jpeg", ".docx", ".txt"}

\* chunk_document(min_chunk_size=50): the floor the filter applies
min_chunk_size == 50

\* the retry budget the specification names (scenario 4)
max_attempts == 3

Cases == {"case1", "case2"}

\* A file's bytes are represented by the pieces (token counts) the splitter
\* cuts its extracted text into: a short cover page of 20 tokens followed by
\* a page of 60 tokens.
Contents == {<<20, 60>>}

\* settings.EMBEDDING_MODEL (default) and the models it may be changed to, with
\* the output dimension of each
EMBEDDING_MODEL == "all-MiniLM-L6-v2"

Models == {"all-MiniLM-L6-v2", "paraphrase-MiniLM-L3-v2", "all-mpnet-base-v2"}

get_sentence_embedding_dimension(m) == IF m = "all-mpnet-base-v2" THEN 768 ELSE 384

\* settings.EMBEDDING_DIMENSION, also the dimension of the Vector(384) column
EMBEDDING_DIMENSION == 384

\* nothing returned yet
NoArgs == [case_id |-> "none", limit |-> 0, threshold |-> 0]

NoResult ==
    [op |-> "none", args |-> NoArgs, texts |-> <<>>, hits |-> <<>>, values |-> <<>>, ok |-> TRUE]

\* the bytes of the text file "Settlement of £15,000 dated 1 January 2024":
\* one passage of 42 characters
SentenceContent == <<14>>

\* the bytes of a file with two pages that both pass the chunk filter
TwoPageContent == <<60, 70>>

\* the bytes of a file larger than the configured maximum
BigContent == <<60, 60>>

\* number of bytes file.read() returns for the content
FileLength(content) == IF content = BigContent THEN MAX_FILE_SIZE + 1 ELSE 1024

\* an UploadFile: extension of the (lower-cased) filename, the size attribute
\* and the byte stream
TextFile(content) == [ext |-> ".txt", size |-> FileLength(content), content |-> content]

\* the requests sent to /documents/upload: valid text files, a file with an
\* extension that is not allowed, an oversized file whose size is known, and
\* an oversized file whose size attribute is not set
UploadFiles ==
    {TextFile(b) : b \in Contents}
    \cup {[ext |-> ".exe", size |-> FileLength(<<60>>), content |-> <<60>>],
          TextFile(BigContent),
          [ext |-> ".txt", size |-> NoSize, content |-> BigContent]}

TaskTypes == {"document_processing", "ocr_only", "chunking_only", "embeddings_only"}

(***************************************************************************)
(* Pure functions                                                          *)
(***************************************************************************)
\* calculate_file_hash: SHA-256 of the byte stream
calculate_file_hash(content) == <<"sha256", content>>

\* final_path = upload_dir/<case_id>/<file_hash[:16]><ext>
final_path(case_id, file_hash) == <<case_id, file_hash>>

\* process_document_ocr: text and page count extracted from the file
process_document_ocr(content) == [text |-> content, page_count |-> Len(content)]

\* semantic_chunk_document: enumerate() numbers the splitter's pieces
semantic_chunk_document(text) ==
    [i \in 1..Len(text) |-> [chunk_index |-> i - 1, token_count |-> text[i]]]

\* the filter loop of chunk_document: keep chunks with token_count >= floor
RECURSIVE filter_chunks(_)
filter_chunks(chunks_data) ==
    IF chunks_data = <<>> THEN <<>>
    ELSE IF Head(chunks_data).token_count >= min_chunk_size
         THEN <<Head(chunks_data)>> \o filter_chunks(Tail(chunks_data))
         ELSE filter_chunks(Tail(chunks_data))

\* characters per token ("3 chars/token average" of semantic_chunk_document)
CharsPerToken == 3

RECURSIVE count_tokens(_)
count_tokens(text) == IF text = <<>> THEN 0 ELSE Head(text) + count_tokens(Tail(text))

\* len(text.strip())
text_length(text) == CharsPerToken * count_tokens(text)

\* chunk_document with use_semantic_chunking=True: a text of fewer than 50
\* characters gives no chunks
chunk_document(text) ==
    IF text = <<>> \/ text_length(text) < 50 THEN <<>>
    ELSE filter_chunks(semantic_chunk_document(text))

\* smart_chunk_document: selects a size profile, then chunk_document
smart_chunk_document(text) == chunk_document(text)

\* model.encode(text, normalize_embeddings=True): the vector the loaded model
\* m computes for the text; len(vector) is the model's output dimension
encode(m, text) == <<"vec", m, text>>

VectorLength(v) == get_sentence_embedding_dimension(v[2])

\* stage lists run by the four RQ job wrappers
StagesOf_ChunkingFirst(task_type) ==
    CASE task_type = "document_processing" -> <<"chunking", "ocr", "embeddings", "finalize">>
      [] task_type = "ocr_only" -> <<"ocr">>
      [] task_type = "chunking_only" -> <<"chunking">>
      [] task_type = "embeddings_only" -> <<"embeddings">>

\* the stage tasks each job function calls, in the order it calls them
StagesOf(task_type) ==
    CASE task_type = "document_processing" -> <<"ocr", "chunking", "embeddings", "finalize">>
      [] task_type = "ocr_only" -> <<"ocr">>
      [] task_type = "chunking_only" -> <<"chunking">>
      [] task_type = "embeddings_only" -> <<"embeddings">>

\* the embedding checkpoint written lower than the chunking checkpoint
Checkpoint_LowEmbedding(stage) ==
    CASE stage = "ocr" -> 10
      [] stage = "chunking" -> 40
      [] stage = "embeddings" -> 30
      [] stage = "finalize" -> 90

\* update_job_progress checkpoints of process_document_pipeline
Checkpoint(stage) ==
    CASE stage = "ocr" -> 10
      [] stage = "chunking" -> 40
      [] stage = "embeddings" -> 70
      [] stage = "finalize" -> 90

\* the queue each enqueue method uses
QueueOf(task_type) ==
    IF task_type = "embeddings_only" THEN "embeddings" ELSE "document_processing"

\* error_msg written by the except block of each stage task
StageError(stage) ==
    CASE stage = "ocr" -> "OCR processing failed"
      [] stage = "chunking" -> "Chunking failed"
      [] stage = "embeddings" -> "Embedding generation failed"

RemoveFromSeq(s, x) == SelectSeq(s, LAMBDA y : y # x)

DocIds == 1..Len(documents)

JobIds == 1..Len(jobs)

UploadIds == 1..Len(uploads)

StageOf(j) == StagesOf(jobs[j].task_type)[jobs[j].stage]

ChunkKey(c) == <<c.created_by, c.chunk_index>>

ChunksOf(d) == {c \in chunks : c.document_id = d}

\* get_job_status: status plus meta.get("progress", 0)
get_job_status(j) ==
    [status |-> jobs[j].status,
     progress |-> IF jobs[j].progress = NoProgress THEN 0 ELSE jobs[j].progress]

(***************************************************************************)
(* Initial state: empty database, upload directory and queues              *)
(***************************************************************************)
Init ==
    /\ documents = <<>>
    /\ chunks = {}
    /\ files = {}
    /\ uploads = <<>>
    /\ jobs = <<>>
    /\ queues = [q \in {"document_processing", "embeddings"} |-> <<>>]
    /\ model = EMBEDDING_MODEL
    /\ cache = {}
    /\ result = NoResult

(***************************************************************************)
(* Upload endpoint (upload_document)                                       *)
(***************************************************************************)
\* the duplicate lookup without the case_id condition
ExistingDocs_AnyCase(case_id, file_hash) ==
    {d \in DocIds : documents[d].file_hash = file_hash}

\* select(Document).where(file_hash == h, case_id == c)
ExistingDocs(case_id, file_hash) ==
    {d \in DocIds : documents[d].file_hash = file_hash /\ documents[d].case_id = case_id}

\* os.rename(temp_path, final_path): the final path now holds these bytes
WriteFile(path, content) ==
    {f \in files : f.path # path} \cup {[path |-> path, content |-> content]}

FileContent(path) == (CHOOSE f \in files : f.path = path).content

FileExists(path) == \E f \in files : f.path = path

InFlight == {u \in UploadIds : uploads[u].pc # "done"}

\* if file.size and file.size > settings.MAX_FILE_SIZE
SizeRejected(file) == file.size # NoSize /\ file.size > MAX_FILE_SIZE

\* if file_ext not in settings.ALLOWED_EXTENSIONS
ExtensionRejected(file) == file.ext \notin ALLOWED_EXTENSIONS

\* the HTTPException status of a request refused by the validation, 0 if it
\* passes
ValidationStatus(file) ==
    IF SizeRejected(file) THEN 413
    ELSE IF ExtensionRejected(file) THEN 400
    ELSE 0

\* The request is received and validated (413 / 400 before anything is
\* written); then it is streamed to a temp file and hashed, and the
\* duplicate lookup runs. scalar_one_or_none() raises when more than one row
\* matches; the except block turns that into a 500 response.
UploadLookup(case_id, file, maxInFlight) ==
    /\ Len(uploads) < MaxUploads
    /\ Cardinality(InFlight) <= maxInFlight
    /\ Len(jobs) + Cardinality(InFlight) < MaxJobs   \* a job slot is left for it
    /\ LET h == calculate_file_hash(file.content)
           existing == ExistingDocs(case_id, h)
           request == [case_id |-> case_id, ext |-> file.ext, size |-> file.size,
                       content |-> file.content, file_hash |-> h,
                       document_id |-> NoId, job_id |-> NoId]
           failed(code) == request @@ [pc |-> "done",
                             response |-> [status_code |-> code, duplicate |-> FALSE,
                                           document_id |-> NoId, job_id |-> NoId]]
       IN uploads' = Append(uploads,
            IF ValidationStatus(file) # 0
            THEN failed(ValidationStatus(file))
            ELSE IF Cardinality(existing) = 0
            THEN request @@ [pc |-> "commit", response |-> NoResponse]
            ELSE IF Cardinality(existing) = 1
            THEN request @@ [pc |-> "done",
                             response |-> [status_code |-> 200, duplicate |-> TRUE,
                                           document_id |-> CHOOSE d \in existing : TRUE,
                                           job_id |-> NoId]]
            ELSE failed(500))
    /\ UNCHANGED <<documents, chunks, files, jobs, queues>>
    /\ UNCHANGED serviceVars

\* The temp file is renamed to the hash-derived path and the Document row is
\* inserted and committed.
UploadCommit(u) ==
    /\ u \in UploadIds
    /\ uploads[u].pc = "commit"
    /\ LET path == final_path(uploads[u].case_id, uploads[u].file_hash)
       IN /\ files' = WriteFile(path, uploads[u].content)
          /\ documents' = Append(documents,
                [case_id |-> uploads[u].case_id,
                 file_hash |-> uploads[u].file_hash,
                 file_path |-> path,
                 ocr_completed |-> FALSE,
                 ocr_text |-> NoText,
                 page_count |-> 0,
                 processed |-> FALSE,
                 processing_error |-> NULL,
                 chunks_generated |-> 0])
    /\ uploads' = [uploads EXCEPT ![u].pc = "enqueue",
                                  ![u].document_id = Len(documents) + 1]
    /\ UNCHANGED <<chunks, jobs, queues>>
    /\ UNCHANGED serviceVars

(***************************************************************************)
(* TaskManager                                                             *)
(***************************************************************************)
\* the Job object queue.enqueue creates: status queued, the meta each
\* enqueue method passes (only the pipeline meta has a progress key)
NewJob(document_id, task_type) ==
    [document_id |-> document_id,
     task_type |-> task_type,
     status |-> "queued",
     progress |-> IF task_type = "document_processing" THEN 0 ELSE NoProgress,
     pc |-> "idle",
     stage |-> 1,
     raised |-> FALSE,
     runs |-> 0,
     rows |-> {},
     priority |-> "normal",
     age |-> NoAge,
     deleted |-> FALSE]

\* queue.enqueue(...): no lookup of the jobs already active for the document
EnqueueJob(document_id, task_type) ==
    /\ jobs' = Append(jobs, NewJob(document_id, task_type))
    /\ queues' = [queues EXCEPT ![QueueOf(task_type)] = Append(@, Len(jobs) + 1)]

\* the enqueue error answered as a success without a job
EnqueueErrorResponse_Swallowed ==
    [status_code |-> 200, duplicate |-> FALSE, document_id |-> NoId, job_id |-> NoId]

\* raise HTTPException(status_code=500, ...) from the except block
EnqueueErrorResponse ==
    [status_code |-> 500, duplicate |-> FALSE, document_id |-> NoId, job_id |-> NoId]

\* upload_document calls task_manager.enqueue_document_processing and returns
UploadEnqueue(u) ==
    /\ u \in UploadIds
    /\ uploads[u].pc = "enqueue"
    /\ EnqueueJob(uploads[u].document_id, "document_processing")
    /\ uploads' = [uploads EXCEPT ![u].pc = "done",
                                  ![u].job_id = Len(jobs) + 1,
                                  ![u].response = [status_code |-> 200, duplicate |-> FALSE,
                                                   document_id |-> uploads[u].document_id,
                                                   job_id |-> Len(jobs) + 1]]
    /\ UNCHANGED <<documents, chunks, files>>
    /\ UNCHANGED serviceVars

\* queue.enqueue raises (Redis unreachable): enqueue_document_processing
\* re-raises, and the except block of upload_document answers 500. The
\* committed Document row and the stored file stay.
UploadEnqueueFails(u) ==
    /\ u \in UploadIds
    /\ uploads[u].pc = "enqueue"
    /\ uploads' = [uploads EXCEPT ![u].pc = "done",
                                  ![u].response = EnqueueErrorResponse]
    /\ UNCHANGED <<documents, chunks, files, jobs, queues>>
    /\ UNCHANGED serviceVars

\* enqueue_document_processing / enqueue_ocr_only / enqueue_chunking_only /
\* enqueue_embeddings_only called for an existing document
Enqueue(document_id, task_type) ==
    /\ document_id \in DocIds
    /\ Len(jobs) + Cardinality(InFlight) < MaxJobs
    /\ EnqueueJob(document_id, task_type)
    /\ UNCHANGED <<documents, chunks, files, uploads>>
    /\ UNCHANGED serviceVars

\* priority values of enqueue_document_processing
Priorities == {"high", "normal", "low"}

\* "Determine queue based on priority": both branches take document_queue
PriorityQueue(priority) ==
    IF priority = "high" THEN "document_processing" ELSE "document_processing"

\* enqueue_document_processing(document_id, priority) for an existing
\* document: the job goes to the tail of the queue chosen for its priority,
\* which it records in its meta
enqueue_document_processing(document_id, priority) ==
    /\ document_id \in DocIds
    /\ Len(jobs) + Cardinality(InFlight) < MaxJobs
    /\ jobs' = Append(jobs, [NewJob(document_id, "document_processing")
                                EXCEPT !.priority = priority])
    /\ queues' = [queues EXCEPT ![PriorityQueue(priority)] = Append(@, Len(jobs) + 1)]
    /\ UNCHANGED <<documents, chunks, files, uploads>>
    /\ UNCHANGED serviceVars

\* cancel_job: job.cancel() for a queued or started job, otherwise a report
cancel_job(j) ==
    /\ j \in JobIds
    /\ IF jobs[j].status \in {"queued", "started"}
       THEN /\ jobs' = [jobs EXCEPT ![j].status = "canceled", ![j].age = 0]
            /\ queues' = [q \in DOMAIN queues |-> RemoveFromSeq(queues[q], j)]
       ELSE UNCHANGED <<jobs, queues>>
    /\ UNCHANGED <<documents, chunks, files, uploads>>
    /\ UNCHANGED serviceVars

\* get_document_jobs(document_id)[0]: the job of the document created last
latest_job(d) ==
    LET js == {j \in JobIds : jobs[j].document_id = d}
    IN IF js = {} THEN NoId ELSE CHOOSE j \in js : \A k \in js : k <= j

\* get_document: the processing_status it reports for a document
processing_status(d) ==
    LET latest == latest_job(d)
    IN IF documents[d].processed THEN "completed"
       ELSE IF documents[d].processing_error # NULL THEN "failed"
       ELSE IF documents[d].ocr_completed THEN "processing"
       ELSE IF latest # NoId /\ jobs[latest].status \in {"queued", "started"} THEN "processing"
       ELSE IF latest # NoId /\ jobs[latest].status = "failed" THEN "failed"
       ELSE "not_started"

(***************************************************************************)
(* RQ worker and worker tasks                                              *)
(***************************************************************************)
IsPipeline(j) == jobs[j].task_type = "document_processing"

\* the rows a stage task reads when it begins: the chunking task the rows it
\* will delete, the embedding task the rows it will update
RowsRead(table, d, stage) ==
    IF stage \in {"chunking", "embeddings"}
    THEN {ChunkKey(c) : c \in {x \in table : x.document_id = d}}
    ELSE {}

\* jobs a worker process is busy with
Running == {j \in JobIds : jobs[j].pc \in {"in", "return", "raise"}}

\* Worker.work(): a worker pops the head of a queue it listens on and marks
\* the job started; the wrapper fetches the document and enters the first
\* stage (the pipeline writes its first progress checkpoint).
Dequeue(q) ==
    /\ queues[q] # <<>>
    /\ Cardinality(Running) < NumWorkers
    /\ LET j == Head(queues[q])
           stage == StagesOf(jobs[j].task_type)[1]
       IN jobs' = [jobs EXCEPT
            ![j].status = "started",
            ![j].pc = "in",
            ![j].runs = @ + 1,
            ![j].progress = IF IsPipeline(j) THEN Checkpoint(stage) ELSE @,
            ![j].rows = RowsRead(chunks, jobs[j].document_id, stage)]
    /\ queues' = [queues EXCEPT ![q] = Tail(@)]
    /\ UNCHANGED <<documents, chunks, files, uploads>>
    /\ UNCHANGED serviceVars

\* rows written by process_document_chunking_task for one run
NewChunks(j, d, chunks_data) ==
    {[document_id |-> d,
      created_by |-> j,
      chunk_index |-> chunks_data[i].chunk_index,
      text |-> <<chunks_data[i].token_count>>,
      embedding |-> NoVector] : i \in 1..Len(chunks_data)}

\* what a stage needs in order to reach its commit
StageCanSucceed(j) ==
    LET d == jobs[j].document_id
        stage == StageOf(j)
    IN CASE stage = "ocr" ->
                /\ FileExists(documents[d].file_path)
                /\ text_length(process_document_ocr(FileContent(documents[d].file_path)).text) >= 10
         [] stage = "chunking" ->
                /\ documents[d].ocr_text # NoText
                /\ smart_chunk_document(documents[d].ocr_text) # <<>>
         [] stage = "embeddings" ->
                /\ jobs[j].rows # {}
                /\ jobs[j].rows \subseteq {ChunkKey(c) : c \in chunks}
         [] stage = "finalize" -> TRUE

\* the commit of each stage task
StageCommit(j) ==
    LET d == jobs[j].document_id
        stage == StageOf(j)
    IN CASE stage = "ocr" ->
            LET content == FileContent(documents[d].file_path)
                ocr == process_document_ocr(content)
            IN /\ documents' = [documents EXCEPT
                      ![d].ocr_text = ocr.text,
                      ![d].ocr_completed = TRUE,
                      ![d].page_count = ocr.page_count,
                      ![d].file_hash = calculate_file_hash(content)]
               /\ UNCHANGED chunks
         [] stage = "chunking" ->
            LET chunks_data == smart_chunk_document(documents[d].ocr_text)
            IN /\ chunks' = {c \in chunks : ChunkKey(c) \notin jobs[j].rows}
                              \cup NewChunks(j, d, chunks_data)
               /\ documents' = [documents EXCEPT
                      ![d].chunks_generated = Len(chunks_data),
                      ![d].processed = TRUE]
         [] stage = "embeddings" ->
            /\ chunks' = {IF ChunkKey(c) \in jobs[j].rows
                          THEN [c EXCEPT !.embedding = encode(model, c.text)]
                          ELSE c : c \in chunks}
            /\ UNCHANGED documents
         [] stage = "finalize" ->
            /\ documents' = [documents EXCEPT
                   ![d].processed = TRUE,
                   ![d].processing_error = NULL]
            /\ UNCHANGED chunks

\* The stage in flight commits its output. The pipeline goes straight on to
\* the next stage: it writes the next progress checkpoint and the next task
\* begins, with no look at the job's status in between. After the last stage
\* progress is set to 100 and the result is returned.
FinishStage(j) ==
    /\ j \in JobIds
    /\ jobs[j].pc = "in"
    /\ StageCanSucceed(j)
    /\ StageCommit(j)
    /\ LET stages == StagesOf(jobs[j].task_type)
           last == jobs[j].stage = Len(stages)
       IN jobs' = [jobs EXCEPT
            ![j].pc = IF last THEN "return" ELSE "in",
            ![j].stage = IF last THEN @ ELSE @ + 1,
            ![j].progress = IF ~IsPipeline(j) THEN @
                            ELSE IF last THEN 100
                            ELSE Checkpoint(stages[jobs[j].stage + 1]),
            ![j].rows = IF last THEN {}
                        ELSE RowsRead(chunks', jobs[j].document_id, stages[jobs[j].stage + 1])]
    /\ UNCHANGED <<files, uploads, queues>>
    /\ UNCHANGED serviceVars

\* The stage in flight raises. The except block of the OCR, chunking and
\* embedding tasks stores its message on the document and re-raises
\* (finalize only re-raises); in the pipeline the except block of
\* process_document_pipeline then overwrites the message and raises TaskError.
FailStage(j) ==
    /\ j \in JobIds
    /\ jobs[j].pc = "in"
    /\ LET d == jobs[j].document_id
           stage == StageOf(j)
       IN documents' = [documents EXCEPT ![d].processing_error =
                            IF IsPipeline(j) THEN "Document processing failed"
                            ELSE StageError(stage)]
    /\ jobs' = [jobs EXCEPT ![j].pc = "raise",
                            ![j].raised = TRUE,
                            ![j].rows = {}]
    /\ UNCHANGED <<chunks, files, uploads, queues>>
    /\ UNCHANGED serviceVars

\* a stage raises because it cannot reach its commit
StageRaises(j) ==
    /\ j \in JobIds
    /\ jobs[j].pc = "in"
    /\ ~StageCanSucceed(j)
    /\ FailStage(j)

\* the wrapper returned: the worker records the job as finished
WorkerSuccess(j) ==
    /\ j \in JobIds
    /\ jobs[j].pc = "return"
    /\ jobs' = [jobs EXCEPT ![j].pc = "done", ![j].status = "finished", ![j].age = 0]
    /\ UNCHANGED <<documents, chunks, files, uploads, queues>>
    /\ UNCHANGED serviceVars

\* the wrapper raised: no Retry was configured at enqueue, so the worker
\* records the job as failed
WorkerFailure(j) ==
    /\ j \in JobIds
    /\ jobs[j].pc = "raise"
    /\ jobs' = [jobs EXCEPT ![j].pc = "done", ![j].status = "failed", ![j].age = 0]
    /\ UNCHANGED <<documents, chunks, files, uploads, queues>>
    /\ UNCHANGED serviceVars

\* One day goes by: every job that has ended is a day older. No enqueue
\* passes result_ttl, so the key of a finished job has expired by then (the
\* queue library keeps a result for 500 seconds unless told otherwise);
\* failed and canceled jobs stay.
DayPasses ==
    /\ \E j \in JobIds : jobs[j].age # NoAge /\ jobs[j].age < MaxAge
    /\ jobs' = [j \in JobIds |->
                  [jobs[j] EXCEPT
                     !.age = IF @ # NoAge /\ @ < MaxAge THEN @ + 1 ELSE @,
                     !.deleted = @ \/ jobs[j].status = "finished"]]
    /\ UNCHANGED <<documents, chunks, files, uploads, queues>>
    /\ UNCHANGED serviceVars

\* queue.failed_job_registry of the queues
failed_job_registry == {j \in JobIds : jobs[j].status = "failed" /\ ~jobs[j].deleted}

\* ended_at < cutoff_date, with cutoff_date = utcnow() - timedelta(days=days)
OlderThan(j, days) == jobs[j].age # NoAge /\ jobs[j].age > days

\* cleanup_old_jobs(days): walks the failed job registry of each queue and
\* deletes the jobs that ended before the cutoff; returns the counts
cleanup_old_jobs(days) ==
    LET old == {j \in failed_job_registry : OlderThan(j, days)}
    IN /\ jobs' = [j \in JobIds |-> [jobs[j] EXCEPT !.deleted = @ \/ j \in old]]
       /\ result' = [NoResult EXCEPT !.op = "cleanup_old_jobs",
                                     !.values = <<days, Cardinality(old)>>]
       /\ UNCHANGED <<documents, chunks, files, uploads, queues, model, cache>>

(***************************************************************************)
(* Embedding service (embeddings.py) and the embedding task on its own     *)
(***************************************************************************)
\* query_text = f"query: {query}"
query_text(query) == <<"query: ">> \o query

\* hashlib.sha256(text.encode('utf-8')).hexdigest()[:16], taken as free of
\* collisions on the texts of the model
text_hash(text) == <<"sha256", text>>

\* a cache key that does not depend on the text
create_cache_key_AnyText(text) == <<"emb">>

\* _create_cache_key: f"{prefix}:{text_hash}" with prefix "emb"
create_cache_key(text) == <<"emb", text_hash(text)>>

\* json.dumps(embedding.tolist())
serialize(embedding) == <<"json", embedding>>

\* np.array(json.loads(cached_data), dtype=np.float32)
deserialize(cached_data) == cached_data[2]

\* _get_cached_embedding: the stored vector, or None
get_cached_embedding(text) ==
    IF \E e \in cache : e.key = create_cache_key(text)
    THEN deserialize((CHOOSE e \in cache : e.key = create_cache_key(text)).value)
    ELSE NoVector

\* _cache_embedding: redis_client.setex(cache_key, ttl, serialized)
cache_embedding(store, text, embedding) ==
    {e \in store : e.key # create_cache_key(text)}
    \cup {[key |-> create_cache_key(text), value |-> serialize(embedding)]}

\* generate_embeddings, batch branch: positions whose text is sent to the model
texts_to_process_All(texts, use_cache) == 1..Len(texts)

\* generate_embeddings, batch branch: the positions that missed the cache
\* and go to model.encode in one call
texts_to_process(texts, use_cache) ==
    {i \in 1..Len(texts) : ~use_cache \/ get_cached_embedding(texts[i]) = NoVector}

\* generate_embeddings, batch branch: the list returned, in input order
generate_embeddings(texts, use_cache) ==
    [i \in 1..Len(texts) |->
        IF i \in texts_to_process(texts, use_cache)
        THEN encode(model, texts[i])
        ELSE get_cached_embedding(texts[i])]

\* generate_embeddings, batch branch: the cache after the new vectors are stored
CacheAfterBatch(texts, use_cache) ==
    IF ~use_cache THEN cache
    ELSE LET new == {texts[i] : i \in texts_to_process(texts, use_cache)}
         IN {e \in cache : \A t \in new : e.key # create_cache_key(t)}
            \cup {[key |-> create_cache_key(t), value |-> serialize(encode(model, t))] : t \in new}

\* generate_embeddings called with a list of texts
GenerateEmbeddings(texts, use_cache) ==
    /\ result' = [op |-> "generate_embeddings_batch", args |-> NoArgs, texts |-> texts,
                  hits |-> [i \in 1..Len(texts) |->
                               i \notin texts_to_process(texts, use_cache)],
                  values |-> generate_embeddings(texts, use_cache), ok |-> TRUE]
    /\ cache' = CacheAfterBatch(texts, use_cache)
    /\ UNCHANGED <<model, pipelineVars>>

\* The body shared by the single-text branch of generate_embeddings and by
\* generate_query_embedding: cache lookup, model.encode on a miss, write back.
EmbedOne(op, text, use_cache) ==
    LET cached == IF use_cache THEN get_cached_embedding(text) ELSE NoVector
        hit == cached # NoVector
        embedding == IF hit THEN cached ELSE encode(model, text)
    IN /\ result' = [op |-> op, args |-> NoArgs, texts |-> <<text>>, hits |-> <<hit>>,
                     values |-> <<embedding>>, ok |-> TRUE]
       /\ cache' = IF use_cache /\ ~hit THEN cache_embedding(cache, text, embedding)
                   ELSE cache
       /\ UNCHANGED <<model, pipelineVars>>

\* generate_embeddings(text: str, use_cache)
GenerateEmbedding(text, use_cache) == EmbedOne("generate_embeddings", text, use_cache)

\* generate_query_embedding(query, use_cache)
GenerateQueryEmbedding(query, use_cache) ==
    EmbedOne("generate_query_embedding", query_text(query), use_cache)

\* a Vector column that takes a list of any length
VectorColumnAccepts_AnyLength(embedding) == TRUE

\* Column(Vector(384)): the bind processor refuses a list of another length
VectorColumnAccepts(embedding) == VectorLength(embedding) = EMBEDDING_DIMENSION

\* the rows of a document ordered by chunk_index
RECURSIVE OrderedRows(_)
OrderedRows(rows) ==
    IF rows = {} THEN <<>>
    ELSE LET first == CHOOSE c \in rows : \A x \in rows : c.chunk_index <= x.chunk_index
         IN <<first>> \o OrderedRows(rows \ {first})

\* the embedding task going through on the count check alone
EmbeddingsPersist_CountOnly(rows, embeddings) ==
    /\ Len(rows) > 0
    /\ Len(embeddings) = Len(rows)

\* what lets process_document_embeddings_task reach the end of its commit:
\* chunks found, as many vectors as chunks, and every UPDATE of the flush
\* taken by the vector column
EmbeddingsPersist(rows, embeddings) ==
    /\ Len(rows) > 0
    /\ Len(embeddings) = Len(rows)
    /\ \A i \in 1..Len(rows) : VectorColumnAccepts(embeddings[i])

\* process_document_embeddings_task run for a document (as an embeddings job
\* does): select the rows, generate_embeddings(texts, use_cache=True), compare
\* the counts, assign and commit; the except block stores the error.
EmbeddingsTask(d) ==
    /\ d \in DocIds
    /\ LET rows == OrderedRows(ChunksOf(d))
           texts == [i \in 1..Len(rows) |-> rows[i].text]
           embeddings == generate_embeddings(texts, TRUE)
           ok == EmbeddingsPersist(rows, embeddings)
       IN /\ cache' = CacheAfterBatch(texts, TRUE)
          /\ result' = [op |-> "process_document_embeddings_task", args |-> NoArgs,
                        texts |-> texts,
                        hits |-> [i \in 1..Len(texts) |->
                                     i \notin texts_to_process(texts, TRUE)],
                        values |-> embeddings, ok |-> ok]
          /\ IF ok
             THEN /\ chunks' = (chunks \ ChunksOf(d))
                        \cup {[rows[i] EXCEPT !.embedding = embeddings[i]] : i \in 1..Len(rows)}
                  /\ UNCHANGED documents
             ELSE /\ documents' = [documents EXCEPT
                        ![d].processing_error = StageError("embeddings")]
                  /\ UNCHANGED chunks
    /\ UNCHANGED <<files, uploads, jobs, queues, model>>

\* settings.EMBEDDING_MODEL is changed and the processes are restarted; the
\* Redis cache outlives the restart
SwitchModel(m) ==
    /\ m # model
    /\ model' = m
    /\ UNCHANGED <<cache, result, pipelineVars>>

\* the TTL of a cache entry runs out
CacheExpire(e) ==
    /\ e \in cache
    /\ cache' = cache \ {e}
    /\ UNCHANGED <<model, result, pipelineVars>>

(***************************************************************************)
(* Search endpoints (search.py). Scores are in hundredths, combined scores *)
(* in ten-thousandths.                                                     *)
(***************************************************************************)
\* SearchRequest.case_id = None
NoCase == "none"

Abs(n) == IF n < 0 THEN -n ELSE n

\* the passage a vector was computed from, as a point on a line
TextPoint(text) == text[Len(text)]

\* 1 - (dc.embedding <=> query_embedding): cosine similarity of two
\* normalized vectors; 100 for vectors of the same passage, falling with the
\* distance of the passages
cosine_similarity(v, w) ==
    LET d == Abs(TextPoint(v[3]) - TextPoint(w[3]))
    IN IF 12 * d > 100 THEN 0 ELSE 100 - 12 * d

\* to_tsvector('english', dc.text) @@ plainto_tsquery('english', :query)
ts_match(text, query) == (TextPoint(text) - TextPoint(query)) % 2 = 0

\* ts_rank(to_tsvector('english', dc.text), plainto_tsquery('english', :query))
ts_rank(text, query) ==
    LET d == Abs(TextPoint(text) - TextPoint(query))
    IN IF d > 9 THEN 0 ELSE 10 - d

\* generate_query_embedding(request.query) as the endpoint calls it
QueryEmbedding(query) ==
    IF get_cached_embedding(query_text(query)) # NoVector
    THEN get_cached_embedding(query_text(query))
    ELSE encode(model, query_text(query))

CacheAfterQuery(query) ==
    IF get_cached_embedding(query_text(query)) # NoVector THEN cache
    ELSE cache_embedding(cache, query_text(query), encode(model, query_text(query)))

\* JOIN documents d ON dc.document_id = d.id WHERE d.case_id = :case_id
InScope(c, case_id) ==
    /\ c.document_id \in DocIds
    /\ case_id # NoCase => documents[c.document_id].case_id = case_id

\* a similarity filter that lets every row through
SimilarityPasses_Always(similarity, threshold) == TRUE

\* 1 - (dc.embedding <=> :query_embedding) > :threshold
SimilarityPasses(similarity, threshold) == similarity > threshold

\* the WHERE clause of the semantic query
SemanticRows(query, case_id, threshold) ==
    {c \in chunks :
        /\ InScope(c, case_id)
        /\ c.embedding # NoVector
        /\ SimilarityPasses(cosine_similarity(c.embedding, QueryEmbedding(query)), threshold)}

\* ORDER BY score DESC LIMIT n: every list the database may return (rows of
\* equal score come in any order)
OrderByDescLimit(rows, score, n) ==
    LET k == IF Cardinality(rows) < n THEN Cardinality(rows) ELSE n
    IN {seq \in [1..k -> rows] :
          /\ \A i, j \in 1..k : i < j => seq[i] # seq[j] /\ score[seq[i]] >= score[seq[j]]
          /\ \A c \in rows : (\A i \in 1..k : seq[i] # c)
                              => \A i \in 1..k : score[seq[i]] >= score[c]}

\* SearchResult built from a row of the semantic query
SemanticItem(c, query) ==
    [chunk |-> c, similarity_score |-> cosine_similarity(c.embedding, QueryEmbedding(query)),
     combined_score |-> 0]

\* every list semantic_search may return
semantic_search(query, case_id, limit, threshold) ==
    LET rows == SemanticRows(query, case_id, threshold)
        similarity == [c \in rows |-> cosine_similarity(c.embedding, QueryEmbedding(query))]
    IN {[i \in DOMAIN seq |-> SemanticItem(seq[i], query)] :
            seq \in OrderByDescLimit(rows, similarity, limit)}

\* POST /search/semantic
SemanticSearch(query, case_id, limit, threshold) ==
    /\ \E found \in semantic_search(query, case_id, limit, threshold) :
          result' = [op |-> "semantic_search",
                     args |-> [case_id |-> case_id, limit |-> limit, threshold |-> threshold],
                     texts |-> <<query>>,
                     hits |-> <<get_cached_embedding(query_text(query)) # NoVector>>,
                     values |-> found, ok |-> TRUE]
    /\ cache' = CacheAfterQuery(query)
    /\ UNCHANGED <<model, pipelineVars>>

\* the WHERE clause of the keyword query
KeywordRows(query, case_id) ==
    {c \in chunks : InScope(c, case_id) /\ ts_match(c.text, query)}

\* max([row.relevance for row in keyword_rows], default=1.0)
max_relevance(keyword_rows, query) ==
    IF keyword_rows = <<>> THEN 100
    ELSE LET ranks == {ts_rank(keyword_rows[i].text, query) : i \in DOMAIN keyword_rows}
         IN CHOOSE r \in ranks : \A x \in ranks : r >= x

\* row.relevance / max_relevance if max_relevance > 0 else 0
normalized_relevance(relevance, maximum) ==
    IF maximum > 0 THEN (100 * relevance) \div maximum ELSE 0

\* "Add semantic results": one entry per semantic result
SemanticScores(semantic_results, semantic_weight) ==
    [i \in DOMAIN semantic_results |->
        [semantic_results[i] EXCEPT
            !.combined_score = semantic_results[i].similarity_score * semantic_weight]]

\* "Add keyword results": a row already present has its score raised, a new
\* row is appended with similarity_score 0
RECURSIVE AddKeywordRows(_, _, _, _, _)
AddKeywordRows(combined, keyword_rows, query, maximum, keyword_weight) ==
    IF keyword_rows = <<>> THEN combined
    ELSE LET row == Head(keyword_rows)
             part == normalized_relevance(ts_rank(row.text, query), maximum) * keyword_weight
             seen == \E i \in DOMAIN combined : combined[i].chunk = row
             next == IF seen
                     THEN [i \in DOMAIN combined |->
                             IF combined[i].chunk = row
                             THEN [combined[i] EXCEPT !.combined_score = @ + part]
                             ELSE combined[i]]
                     ELSE Append(combined, [chunk |-> row, similarity_score |-> 0,
                                            combined_score |-> part])
         IN AddKeywordRows(next, Tail(keyword_rows), query, maximum, keyword_weight)

\* sorted(..., key=score, reverse=True): stable, entries of equal score keep
\* their order
RECURSIVE SortedByScore(_)
SortedByScore(items) ==
    IF items = <<>> THEN <<>>
    ELSE LET rest == SortedByScore(SubSeq(items, 1, Len(items) - 1))
             x == items[Len(items)]
             before == SelectSeq(rest, LAMBDA y : y.combined_score >= x.combined_score)
             after == SelectSeq(rest, LAMBDA y : y.combined_score < x.combined_score)
         IN before \o <<x>> \o after

\* the threshold of the SearchRequest hybrid_search builds (the default)
DefaultThreshold == 50

\* POST /search/hybrid
HybridSearch(query, case_id, keyword_weight, semantic_weight, limit) ==
    /\ \E semantic_results \in semantic_search(query, case_id, limit * 2, DefaultThreshold),
          keyword_rows \in OrderByDescLimit(KeywordRows(query, case_id),
                                            [c \in KeywordRows(query, case_id) |->
                                                ts_rank(c.text, query)], limit * 2) :
          LET combined == AddKeywordRows(SemanticScores(semantic_results, semantic_weight),
                                         keyword_rows, query,
                                         max_relevance(keyword_rows, query), keyword_weight)
              sorted_results == SortedByScore(combined)
          IN result' = [op |-> "hybrid_search",
                        args |-> [case_id |-> case_id, limit |-> limit,
                                  threshold |-> DefaultThreshold],
                        texts |-> <<query>>,
                        hits |-> <<get_cached_embedding(query_text(query)) # NoVector>>,
                        values |-> SubSeq(sorted_results, 1,
                                          IF Len(sorted_results) < limit
                                          THEN Len(sorted_results) ELSE limit),
                        ok |-> TRUE]
    /\ cache' = CacheAfterQuery(query)
    /\ UNCHANGED <<model, pipelineVars>>

(***************************************************************************)
(* Text extraction (ocr.py) and the OCR task on its result                 *)
(***************************************************************************)
\* outcome of a page (or file) whose extraction raises
Raises == -1

\* len("--- Page n ---\n"), the header put before the text of a page
PageHeader == 15

\* len("\n\n"), the separator "\n\n".join puts between pages
PageSeparator == 2

\* metadata of a call that raised
NoMetadata ==
    [extraction_method |-> "unknown", page_count |-> 0, has_text_layer |-> FALSE,
     failed_pages |-> {}, processing_errors |-> {}]

\* the entries of text_content: for each page whose outcome (a number of
\* characters) is usable text, the header and the text, labelled with the
\* path that produced it
PageTexts(outcomes, method) ==
    LET all == [i \in 1..Len(outcomes) |->
                   [method |-> method, page |-> i, chars |-> PageHeader + outcomes[i]]]
    IN SelectSeq(all, LAMBDA part : outcomes[part.page] > 0)

\* len(text.strip()) of the joined text
RECURSIVE StrippedLength(_)
StrippedLength(text) ==
    IF text = <<>> THEN 0
    ELSE Head(text).chars + (IF Len(text) > 1 THEN PageSeparator ELSE 0)
         + StrippedLength(Tail(text))

\* ocr_pdf_enhanced: convert_from_path, then tesseract page by page; a page
\* that raises or gives no text goes to failed_pages, a page that raises
\* also to processing_errors; a failing conversion raises
ocr_pdf_enhanced(pdf) ==
    LET scans == [i \in 1..Len(pdf.pages) |-> pdf.pages[i].scan]
    IN IF ~pdf.convertible
       THEN [raised |-> TRUE, text |-> <<>>, metadata |-> NoMetadata]
       ELSE [raised |-> FALSE,
             text |-> PageTexts(scans, "ocr"),
             metadata |-> [extraction_method |-> "ocr",
                           page_count |-> Len(scans),
                           has_text_layer |-> FALSE,
                           failed_pages |-> {i \in 1..Len(scans) : scans[i] <= 0},
                           processing_errors |-> {i \in 1..Len(scans) : scans[i] = Raises}]]

\* the pages page.extract_text() is called on before it raises (all of them
\* when it does not raise)
DirectRead(pdf) ==
    LET bad == {i \in 1..Len(pdf.pages) : pdf.pages[i].layer = Raises}
        n == IF bad = {} THEN Len(pdf.pages)
             ELSE (CHOOSE i \in bad : \A k \in bad : i <= k) - 1
    IN [i \in 1..n |-> pdf.pages[i].layer]

\* the direct extraction loop ended in the except block
DirectRaised(pdf) == \E i \in 1..Len(pdf.pages) : pdf.pages[i].layer = Raises

\* a direct extraction that returns whatever it has read when a page raises
DirectReturns_Partial(pdf) == PageTexts(DirectRead(pdf), "direct_text") # <<>>

\* "If we got text, return it": reached only when no page raised
DirectReturns(pdf) ==
    ~DirectRaised(pdf) /\ PageTexts(DirectRead(pdf), "direct_text") # <<>>

\* process_pdf_enhanced: direct extraction page by page; the text layer is
\* returned when the loop ends with text, otherwise (no text, or an
\* exception) the result of ocr_pdf_enhanced is returned and its metadata
\* laid over the metadata so far. ocr_run tells whether ocr_pdf_enhanced
\* was called.
process_pdf_enhanced(pdf) ==
    LET direct == PageTexts(DirectRead(pdf), "direct_text")
        ocr == ocr_pdf_enhanced(pdf)
    IN IF DirectReturns(pdf)
       THEN [raised |-> FALSE, text |-> direct, ocr_run |-> FALSE,
             metadata |-> [extraction_method |-> "direct_text",
                           page_count |-> Len(pdf.pages),
                           has_text_layer |-> TRUE,
                           failed_pages |-> {},
                           processing_errors |-> {}]]
       ELSE [raised |-> ocr.raised, text |-> ocr.text, ocr_run |-> TRUE,
             metadata |-> IF ocr.raised THEN NoMetadata
                          ELSE [ocr.metadata EXCEPT !.has_text_layer = direct # <<>>]]

\* process_document_ocr for a file with one body (an image, a text file):
\* process_image / process_text_file, then the metadata of that kind
process_single(file, method) ==
    IF file.body = Raises
    THEN [raised |-> TRUE, text |-> <<>>, ocr_run |-> method = "image_ocr",
          metadata |-> NoMetadata]
    ELSE [raised |-> FALSE,
          text |-> IF file.body > 0
                   THEN <<[method |-> method, page |-> 1, chars |-> file.body]>>
                   ELSE <<>>,
          ocr_run |-> method = "image_ocr",
          metadata |-> [NoMetadata EXCEPT !.extraction_method = method, !.page_count = 1]]

\* process_document_ocr: the branch for the file's mime type
process_document_ocr_mime(file) ==
    CASE file.mime_type = "application/pdf" -> process_pdf_enhanced(file)
      [] file.mime_type = "image/png" -> process_single(file, "image_ocr")
      [] file.mime_type = "text/plain" -> process_single(file, "direct_text")

\* "if not text or len(text.strip()) < 10": the text the OCR task accepts
min_text_length == 10

\* process_document_ocr(file_path, mime_type) called on a stored file
ProcessDocumentOcr(path) ==
    /\ FileExists(path)
    /\ LET out == process_document_ocr_mime(FileContent(path))
       IN result' = [op |-> "process_document_ocr", raised |-> out.raised,
                     text |-> out.text, ocr_run |-> out.ocr_run,
                     metadata |-> out.metadata, ok |-> ~out.raised]
    /\ UNCHANGED <<model, cache, pipelineVars>>

\* process_document_ocr_task on a document whose file is stored: the text
\* is extracted and refused when it has fewer than 10 characters; the
\* except block stores the error and re-raises
OcrTask(d) ==
    /\ d \in DocIds
    /\ FileExists(documents[d].file_path)
    /\ LET out == process_document_ocr_mime(FileContent(documents[d].file_path))
           ok == ~out.raised /\ StrippedLength(out.text) >= min_text_length
       IN /\ result' = [op |-> "process_document_ocr_task", raised |-> out.raised,
                        text |-> out.text, ocr_run |-> out.ocr_run,
                        metadata |-> out.metadata, ok |-> ok]
          /\ documents' = IF ok
                          THEN [documents EXCEPT ![d].ocr_text = out.text,
                                                 ![d].ocr_completed = TRUE,
                                                 ![d].page_count = out.metadata.page_count]
                          ELSE [documents EXCEPT ![d].processing_error = StageError("ocr")]
    /\ UNCHANGED <<chunks, files, uploads, jobs, queues, model, cache>>

(***************************************************************************)
(* Guardian policy checker (guardian.py)                                   *)
(***************************************************************************)
\* the diff summary when git gives no usable output
NoStat == [files |-> 0, insertions |-> 0, deletions |-> 0]

\* re.findall(r'\d+', summary_line) on " F files changed, I insertions(+),
\* D deletions(-)": git leaves out the insertions or the deletions part when
\* its count is zero
summary_numbers(stat) ==
    <<stat.files>>
    \o (IF stat.insertions > 0 THEN <<stat.insertions>> ELSE <<>>)
    \o (IF stat.deletions > 0 THEN <<stat.deletions>> ELSE <<>>)

\* sum(int(n) for n in numbers[:2])
total_changes(numbers) ==
    IF Len(numbers) >= 2 THEN numbers[1] + numbers[2] ELSE numbers[1]

\* PolicyChecker.check_pr_size for the diff summary git reports and the
\* max_lines of the policy: what it returns and the violations it records
check_pr_size(stat, max_lines) ==
    IF stat = NoStat
    THEN [returned |-> TRUE, violations |-> <<>>]
    ELSE IF stat.insertions > 0 \/ stat.deletions > 0
    THEN LET total == total_changes(summary_numbers(stat))
         IN IF total > max_lines
            THEN [returned |-> FALSE,
                  violations |-> <<[message |-> "PR too large", lines |-> total,
                                    max |-> max_lines]>>]
            ELSE [returned |-> TRUE, violations |-> <<>>]
    ELSE [returned |-> TRUE, violations |-> <<>>]

\* the repository a check runs in: the diff summary git reports for the
\* branch and the max_lines of its policy file
Repository == (CHOOSE f \in files : f.path = "repository").content

\* a PolicyChecker is built and check_pr_size called
CheckPrSize ==
    /\ LET out == check_pr_size(Repository.stat, Repository.max_lines)
       IN result' = [op |-> "check_pr_size", returned |-> out.returned,
                     violations |-> out.violations]
    /\ UNCHANGED <<model, cache, pipelineVars>>

\* the branch is rebased: git reports another diff for the same policy
Rebase(stat) ==
    /\ stat # Repository.stat
    /\ files' = {[path |-> "repository", content |-> [Repository EXCEPT !.stat = stat]]}
    /\ result' = NoResult
    /\ UNCHANGED <<documents, chunks, uploads, jobs, queues, model, cache>>

(***************************************************************************)
(* Specifications                                                          *)
(***************************************************************************)
JobSlots == 1..MaxJobs

UploadSlots == 1..MaxUploads

\* Upload requests may overlap; workers and TaskManager calls interleave
\* with them.
Next ==
    \/ \E c \in Cases, b \in Contents : UploadLookup(c, TextFile(b), MaxUploads)
    \/ \E u \in UploadSlots : UploadCommit(u)
    \/ \E u \in UploadSlots : UploadEnqueue(u)
    \/ \E u \in UploadSlots : UploadEnqueueFails(u)
    \/ \E d \in UploadSlots, t \in TaskTypes : Enqueue(d, t)
    \/ \E j \in JobSlots : cancel_job(j)
    \/ \E q \in DOMAIN queues : Dequeue(q)
    \/ \E j \in JobSlots : FinishStage(j)
    \/ \E j \in JobSlots : FailStage(j)
    \/ \E j \in JobSlots : WorkerSuccess(j)
    \/ \E j \in JobSlots : WorkerFailure(j)

Spec == Init /\ [][Next]_vars

\* The gateway with upload requests of every kind (valid and invalid files)
\* served one at a time (a request is accepted only when no other request is
\* in flight) and the workers running the pipeline jobs the uploads enqueue.
NextSeq ==
    \/ \E c \in Cases, f \in UploadFiles : UploadLookup(c, f, 0)
    \/ \E u \in UploadSlots : UploadCommit(u)
    \/ \E u \in UploadSlots : UploadEnqueue(u)
    \/ \E u \in UploadSlots : UploadEnqueueFails(u)
    \/ \E q \in DOMAIN queues : Dequeue(q)
    \/ \E j \in JobSlots : FinishStage(j)
    \/ \E j \in JobSlots : FailStage(j)
    \/ \E j \in JobSlots : WorkerSuccess(j)
    \/ \E j \in JobSlots : WorkerFailure(j)

SpecSeq == Init /\ [][NextSeq]_vars

\* The orchestrator on the documents of one case: uploads for that case are
\* served one at a time, TaskManager calls and workers interleave freely.
NextJobs ==
    \/ \E b \in Contents : UploadLookup("case1", TextFile(b), 0)
    \/ \E u \in UploadSlots : UploadCommit(u)
    \/ \E u \in UploadSlots : UploadEnqueue(u)
    \/ \E d \in UploadSlots, t \in TaskTypes : Enqueue(d, t)
    \/ \E j \in JobSlots : cancel_job(j)
    \/ \E q \in DOMAIN queues : Dequeue(q)
    \/ \E j \in JobSlots : FinishStage(j)
    \/ \E j \in JobSlots : FailStage(j)
    \/ \E j \in JobSlots : WorkerSuccess(j)
    \/ \E j \in JobSlots : WorkerFailure(j)

SpecJobs == Init /\ [][NextJobs]_vars

\* Pipeline jobs of every priority: uploads for one case served one at a
\* time, enqueue_document_processing calls with a priority, and the workers.
NextPriority ==
    \/ \E b \in Contents : UploadLookup("case1", TextFile(b), 0)
    \/ \E u \in UploadSlots : UploadCommit(u)
    \/ \E u \in UploadSlots : UploadEnqueue(u)
    \/ \E d \in UploadSlots, p \in Priorities : enqueue_document_processing(d, p)
    \/ \E q \in DOMAIN queues : Dequeue(q)
    \/ \E j \in JobSlots : FinishStage(j)
    \/ \E j \in JobSlots : FailStage(j)
    \/ \E j \in JobSlots : WorkerSuccess(j)
    \/ \E j \in JobSlots : WorkerFailure(j)

SpecPriority == Init /\ [][NextPriority]_vars

\* what extracting one page or one file gives: an exception, no text, a few
\* characters, a paragraph
Outcomes == {Raises, 0, 3, 40}

\* a page of a PDF: what page.extract_text() and what tesseract give for it
Pages == [layer : Outcomes, scan : Outcomes]

\* the stored files: PDFs of one or two pages that pdf2image can or cannot
\* convert, an image, a text file
ExtractFiles ==
    {[mime_type |-> "application/pdf", pages |-> pages, convertible |-> c, body |-> 0] :
        pages \in {<<p>> : p \in Pages} \cup {<<p, q>> : p, q \in Pages}, c \in BOOLEAN}
    \cup {[mime_type |-> m, pages |-> <<>>, convertible |-> TRUE, body |-> b] :
            m \in {"image/png", "text/plain"}, b \in Outcomes}

\* the path of the one stored file
ExtractPath == <<"case1", "file">>

\* one uploaded document of any of the kinds, not yet processed
InitExtract ==
    /\ \E file \in ExtractFiles : files = {[path |-> ExtractPath, content |-> file]}
    /\ documents = <<[case_id |-> "case1",
                      file_hash |-> <<"sha256", "file">>,
                      file_path |-> ExtractPath,
                      ocr_completed |-> FALSE,
                      ocr_text |-> NoText,
                      page_count |-> 0,
                      processed |-> FALSE,
                      processing_error |-> NULL,
                      chunks_generated |-> 0]>>
    /\ chunks = {}
    /\ uploads = <<>>
    /\ jobs = <<>>
    /\ queues = [q \in {"document_processing", "embeddings"} |-> <<>>]
    /\ model = EMBEDDING_MODEL
    /\ cache = {}
    /\ result = NoResult

\* text extraction called on its own and through the OCR task
NextExtract ==
    \/ ProcessDocumentOcr(ExtractPath)
    \/ \E d \in {1} : OcrTask(d)

SpecExtract == InitExtract /\ [][NextExtract]_vars

\* max_lines when the policy does not set it
default_max_lines == 300

\* line counts around the default limit
LineCounts == {0, 1, 150, 299, 300, 301}

\* the diff summaries: no usable output, or a number of files with
\* insertions and deletions
DiffStats ==
    {NoStat} \cup [files : 1..2, insertions : LineCounts, deletions : LineCounts]

\* a repository with a policy file and a branch to check
InitGuardian ==
    /\ \E stat \in DiffStats, max_lines \in {default_max_lines, 1} :
          files = {[path |-> "repository",
                    content |-> [stat |-> stat, max_lines |-> max_lines]]}
    /\ documents = <<>>
    /\ chunks = {}
    /\ uploads = <<>>
    /\ jobs = <<>>
    /\ queues = [q \in {"document_processing", "embeddings"} |-> <<>>]
    /\ model = EMBEDDING_MODEL
    /\ cache = {}
    /\ result = NoResult

NextGuardian ==
    \/ CheckPrSize
    \/ \E stat \in DiffStats : Rebase(stat)

SpecGuardian == InitGuardian /\ [][NextGuardian]_vars

\* retention windows cleanup_old_jobs is called with, in days
Windows == 0..1

\* The jobs over the days: uploads served one at a time, cancellation,
\* workers, the passing of days and clean-up calls.
NextCleanup ==
    \/ \E c \in Cases, b \in Contents : UploadLookup(c, TextFile(b), 0)
    \/ \E u \in UploadSlots : UploadCommit(u)
    \/ \E u \in UploadSlots : UploadEnqueue(u)
    \/ \E j \in JobSlots : cancel_job(j)
    \/ \E q \in DOMAIN queues : Dequeue(q)
    \/ \E j \in JobSlots : FinishStage(j)
    \/ \E j \in JobSlots : FailStage(j)
    \/ \E j \in JobSlots : WorkerSuccess(j)
    \/ \E j \in JobSlots : WorkerFailure(j)
    \/ DayPasses
    \/ \E days \in Windows : cleanup_old_jobs(days)

SpecCleanup == Init /\ [][NextCleanup]_vars

\* Uploads of text files (the one-sentence file among them) served one at a
\* time with the queue reachable, and workers whose stages raise only when
\* they cannot succeed; every request and every job is served in the end.
NextScenario ==
    \/ \E c \in Cases, b \in Contents \cup {SentenceContent} : UploadLookup(c, TextFile(b), 0)
    \/ \E u \in UploadSlots : UploadCommit(u)
    \/ \E u \in UploadSlots : UploadEnqueue(u)
    \/ \E q \in DOMAIN queues : Dequeue(q)
    \/ \E j \in JobSlots : FinishStage(j)
    \/ \E j \in JobSlots : StageRaises(j)
    \/ \E j \in JobSlots : WorkerSuccess(j)
    \/ \E j \in JobSlots : WorkerFailure(j)

SpecScenario ==
    /\ Init
    /\ [][NextScenario]_vars
    /\ \A u \in UploadSlots : WF_vars(UploadCommit(u)) /\ WF_vars(UploadEnqueue(u))
    /\ \A q \in {"document_processing", "embeddings"} : WF_vars(Dequeue(q))
    /\ \A j \in JobSlots : /\ WF_vars(FinishStage(j)) /\ WF_vars(StageRaises(j))
                            /\ WF_vars(WorkerSuccess(j)) /\ WF_vars(WorkerFailure(j))

\* passages of the stored chunks and the query of the searches
SearchTexts == {<<60>>, <<61>>, <<66>>}

SearchQuery == <<60>>

\* a chunk row of one of the passages, embedded or not yet embedded
SearchRow(d, i, text, embedded) ==
    [document_id |-> d, created_by |-> NoId, chunk_index |-> i, text |-> text,
     embedding |-> IF embedded THEN encode(EMBEDDING_MODEL, text) ELSE NoVector]

SearchSlot(d, i) ==
    {{}} \cup {{SearchRow(d, i, t, e)} : t \in SearchTexts, e \in BOOLEAN}

\* a processed document of a case
SearchDocument(case_id) ==
    [case_id |-> case_id,
     file_hash |-> calculate_file_hash(TwoPageContent),
     file_path |-> final_path(case_id, calculate_file_hash(TwoPageContent)),
     ocr_completed |-> TRUE,
     ocr_text |-> process_document_ocr(TwoPageContent).text,
     page_count |-> process_document_ocr(TwoPageContent).page_count,
     processed |-> TRUE,
     processing_error |-> NULL,
     chunks_generated |-> 2]

\* One document in each of two cases, with any chunk rows (none, some not
\* embedded) in the first document's two places and the second document's
\* first place.
InitSearch ==
    /\ documents = <<SearchDocument("case1"), SearchDocument("case2")>>
    /\ \E a \in SearchSlot(1, 0), b \in SearchSlot(1, 1), c \in SearchSlot(2, 0) :
          chunks = a \cup b \cup c
    /\ files = {[path |-> final_path(case_id, calculate_file_hash(TwoPageContent)),
                 content |-> TwoPageContent] : case_id \in Cases}
    /\ uploads = <<>>
    /\ jobs = <<>>
    /\ queues = [q \in {"document_processing", "embeddings"} |-> <<>>]
    /\ model = EMBEDDING_MODEL
    /\ cache = {}
    /\ result = NoResult

Limits == 0..2

\* defaults of the hybrid_search parameters, in hundredths
keyword_weight == 30

semantic_weight == 70

Thresholds == {50, 90, 99}

NextSearch ==
    \/ \E case_id \in Cases \cup {NoCase}, limit \in Limits, threshold \in Thresholds :
          SemanticSearch(SearchQuery, case_id, limit, threshold)
    \/ \E case_id \in Cases \cup {NoCase}, limit \in Limits :
          HybridSearch(SearchQuery, case_id, keyword_weight, semantic_weight, limit)

SpecSearch == InitSearch /\ [][NextSearch]_vars

\* texts handed to the embedding service
Texts == {<<60>>, <<"query: ", 60>>}

Queries == {<<60>>}

\* A stored, extracted and chunked document whose chunks have no embedding
\* yet, with any of the models configured.
InitEmb ==
    /\ files = {[path |-> final_path("case1", calculate_file_hash(TwoPageContent)),
                 content |-> TwoPageContent]}
    /\ documents = <<[case_id |-> "case1",
                      file_hash |-> calculate_file_hash(TwoPageContent),
                      file_path |-> final_path("case1", calculate_file_hash(TwoPageContent)),
                      ocr_completed |-> TRUE,
                      ocr_text |-> process_document_ocr(TwoPageContent).text,
                      page_count |-> process_document_ocr(TwoPageContent).page_count,
                      processed |-> TRUE,
                      processing_error |-> NULL,
                      chunks_generated |->
                          Len(smart_chunk_document(process_document_ocr(TwoPageContent).text))]>>
    /\ chunks = NewChunks(NoId, 1,
                          smart_chunk_document(process_document_ocr(TwoPageContent).text))
    /\ uploads = <<>>
    /\ jobs = <<>>
    /\ queues = [q \in {"document_processing", "embeddings"} |-> <<>>]
    /\ model \in Models
    /\ cache = {}
    /\ result = NoResult

\* the embedding service under one configured model
NextEmbFixed ==
    \/ \E t \in Texts, use_cache \in BOOLEAN : GenerateEmbedding(t, use_cache)
    \/ \E q \in Queries, use_cache \in BOOLEAN : GenerateQueryEmbedding(q, use_cache)
    \/ \E d \in {1} : EmbeddingsTask(d)
    \/ \E e \in cache : CacheExpire(e)

SpecEmbFixed == InitEmb /\ [][NextEmbFixed]_vars

\* the embedding service across changes of the configured model
NextEmb ==
    \/ \E t \in Texts, use_cache \in BOOLEAN : GenerateEmbedding(t, use_cache)
    \/ \E q \in Queries, use_cache \in BOOLEAN : GenerateQueryEmbedding(q, use_cache)
    \/ \E d \in {1} : EmbeddingsTask(d)
    \/ \E e \in cache : CacheExpire(e)
    \/ \E m \in Models : SwitchModel(m)

SpecEmb == InitEmb /\ [][NextEmb]_vars

\* the lists generate_embeddings is called with: none, one or two texts,
\* the same text twice among them
BatchTexts == {<<>>} \cup {<<t>> : t \in Texts} \cup {<<t, u>> : t, u \in Texts}

\* batch calls of generate_embeddings on a cache whose entries expire, across
\* changes of the configured model
NextBatch ==
    \/ \E texts \in BatchTexts, use_cache \in BOOLEAN : GenerateEmbeddings(texts, use_cache)
    \/ \E e \in cache : CacheExpire(e)
    \/ \E m \in Models : SwitchModel(m)

SpecBatch == InitEmb /\ [][NextBatch]_vars

(***************************************************************************)
(* Properties                                                              *)
(***************************************************************************)
Created(u) ==
    /\ uploads[u].response.status_code = 200
    /\ ~uploads[u].response.duplicate

\* C1 Sequential dedup (under SpecSeq): once an upload of (case, bytes) has
\* returned having created document D, every later upload of the same bytes
\* for the same case that passes the validation has returned
\* duplicate=true with document_id = D and created neither a document nor a
\* job, and there is one document for the
\* pair; an upload reported as a duplicate always names a document of its own
\* case, so the same bytes in another case are not a duplicate.
DedupSequential ==
    \A u \in UploadIds :
        /\ \A v \in 1..(u - 1) :
              (Created(v) /\ ValidationStatus(uploads[u]) = 0
                          /\ uploads[v].content = uploads[u].content
                          /\ uploads[v].case_id = uploads[u].case_id)
              => /\ uploads[u].pc = "done"
                 /\ uploads[u].response.status_code = 200
                 /\ uploads[u].response.duplicate
                 /\ uploads[u].response.document_id = uploads[v].response.document_id
                 /\ uploads[u].document_id = NoId
                 /\ uploads[u].job_id = NoId
                 /\ Cardinality(ExistingDocs(uploads[u].case_id, uploads[u].file_hash)) = 1
        /\ uploads[u].response.duplicate
              => \E v \in 1..(u - 1) :
                    /\ uploads[v].document_id = uploads[u].response.document_id
                    /\ uploads[v].case_id = uploads[u].case_id
                    /\ uploads[v].content = uploads[u].content

\* a second upload of the same bytes for the same case has returned as a
\* duplicate
DedupSequentialWitness ==
    \E u \in UploadIds :
        /\ uploads[u].pc = "done"
        /\ uploads[u].response.duplicate
        /\ uploads[u].response.document_id \in DocIds

\* C2 At most one document record per (case reference, content hash), under
\* any interleaving of upload calls.
UniqueCaseHash ==
    \A d1, d2 \in DocIds :
        (documents[d1].case_id = documents[d2].case_id
         /\ documents[d1].file_hash = documents[d2].file_hash) => d1 = d2

Active(j) == jobs[j].status \in {"queued", "started"}

\* C3 At most one active (queued or started) job per document and stage set.
OneActiveJobPerDocumentAndType ==
    \A j1, j2 \in JobIds :
        (Active(j1) /\ Active(j2)
         /\ jobs[j1].document_id = jobs[j2].document_id
         /\ jobs[j1].task_type = jobs[j2].task_type) => j1 = j2

\* C4 Retry bound: a job whose stage failed is failed only after it has been
\* executed max_attempts times, and then the document's last error is set.
RetryBound ==
    \A j \in JobIds :
        (jobs[j].status = "failed" /\ jobs[j].raised)
        => /\ jobs[j].runs = max_attempts
           /\ documents[jobs[j].document_id].processing_error # NULL

Terminal(status) == status \in {"finished", "failed", "canceled"}

\* C5 Job status moves only along queued -> started -> {finished, failed,
\* canceled}; a job in a terminal status never changes status again.
StatusMonotonic ==
    [][\A j \in JobIds :
         jobs'[j].status # jobs[j].status
         => \/ jobs[j].status = "queued" /\ jobs'[j].status \in {"started", "canceled"}
            \/ jobs[j].status = "started" /\ Terminal(jobs'[j].status)]_vars

\* C6 Progress monotonicity: two successive status reads of a job that is
\* started at both reads never show a lower progress at the second read, and
\* the progress read is always within 0..100.
ProgressMonotonic ==
    [][\A j \in JobIds :
         /\ get_job_status(j).progress \in 0..100
         /\ get_job_status(j)'.progress \in 0..100
         /\ (get_job_status(j).status = "started" /\ get_job_status(j)'.status = "started")
            => get_job_status(j)'.progress >= get_job_status(j).progress]_vars

\* a started pipeline job has passed the chunking -> embedding transition
ProgressMonotonicWitness ==
    \E j \in JobIds :
        /\ get_job_status(j).status = "started"
        /\ get_job_status(j).progress >= 70

\* C7 Cooperative cancellation: once cancel has been accepted for a job, the
\* job starts no later stage and does not end finished.
CooperativeCancel ==
    [][\A j \in JobIds :
         jobs[j].status = "canceled"
         => /\ jobs'[j].stage = jobs[j].stage
            /\ jobs'[j].status # "finished"]_vars

\* C8 Chunk contiguity: the chunk_index values of the rows one chunking run
\* persisted are exactly 0..N-1.
ChunkContiguity ==
    \A j \in JobIds :
        LET rows == {c \in chunks : c.created_by = j}
        IN {c.chunk_index : c \in rows} = 0..(Cardinality(rows) - 1)

\* C9 Stage errors are never lost: when a job one of whose stages raised
\* becomes terminal, it is failed and the document's last error is set.
StageErrorsRecorded ==
    [][\A j \in JobIds :
         (jobs[j].raised /\ jobs[j].pc # "done" /\ jobs'[j].pc = "done")
         => /\ jobs'[j].status = "failed"
            /\ documents'[jobs[j].document_id].processing_error # NULL]_vars

\* C10 Failure leaves earlier results intact: the step in which a stage of a
\* pipeline job fails changes neither the stored files, the extracted text
\* and page count, nor the chunk rows; and when the failing stage is the
\* embedding stage the document has chunk rows and all have no embedding.
FailureKeepsEarlierResults ==
    [][\A j \in JobIds :
         (IsPipeline(j) /\ jobs[j].pc = "in" /\ jobs'[j].pc = "raise")
         => LET d == jobs[j].document_id
            IN /\ files' = files
               /\ chunks' = chunks
               /\ documents'[d].ocr_text = documents[d].ocr_text
               /\ documents'[d].page_count = documents[d].page_count
               /\ StageOf(j) = "embeddings"
                  => /\ ChunksOf(d) # {}
                     /\ \A c \in ChunksOf(d) : c.embedding = NoVector]_vars

Oversized(u) == FileLength(uploads[u].content) > MAX_FILE_SIZE

BadExtension(u) == uploads[u].ext \notin ALLOWED_EXTENSIONS

\* C11 Upload validation: an upload whose byte size exceeds MAX_FILE_SIZE or
\* whose extension is not allowed is answered 413 / 400 in the step that
\* receives it, and it has created no document, no job and no stored file
\* (a file at its hash path can only come from another, valid upload).
UploadValidation ==
    \A u \in UploadIds :
        (Oversized(u) \/ BadExtension(u))
        => /\ uploads[u].pc = "done"
           /\ uploads[u].response.status_code \in {400, 413}
           /\ uploads[u].document_id = NoId
           /\ uploads[u].job_id = NoId
           /\ FileExists(final_path(uploads[u].case_id, uploads[u].file_hash))
              => \E v \in UploadIds :
                    /\ ~Oversized(v) /\ ~BadExtension(v)
                    /\ uploads[v].case_id = uploads[u].case_id
                    /\ uploads[v].file_hash = uploads[u].file_hash

\* C12 Enqueue failure is reported: an upload that created its document and
\* has returned without a job being enqueued for it answered with an error
\* status and no job_id; a success response of a new document names the job
\* that was enqueued for that document.
EnqueueFailureReported ==
    \A u \in UploadIds :
        (uploads[u].pc = "done" /\ uploads[u].document_id # NoId)
        => IF uploads[u].job_id = NoId
           THEN /\ uploads[u].response.status_code = 500
                /\ uploads[u].response.job_id = NoId
           ELSE /\ uploads[u].response.status_code = 200
                /\ uploads[u].response.job_id = uploads[u].job_id
                /\ uploads[u].job_id \in JobIds
                /\ jobs[uploads[u].job_id].document_id = uploads[u].document_id

\* an upload committed its document, the enqueue raised and it returned 500
EnqueueFailureReportedWitness ==
    \E u \in UploadIds :
        /\ uploads[u].pc = "done"
        /\ uploads[u].document_id \in DocIds
        /\ uploads[u].job_id = NoId
        /\ uploads[u].response.status_code = 500

\* C13 Dimension invariant: every embedding persisted on a chunk has the
\* length EMBEDDING_DIMENSION, whichever model is or was configured and
\* whether the vector was computed or came from the cache.
DimensionInvariant ==
    \A c \in chunks :
        c.embedding # NoVector => VectorLength(c.embedding) = EMBEDDING_DIMENSION

\* the embedding task persisted a vector it was served from the cache
DimensionInvariantWitness ==
    /\ result.op = "process_document_embeddings_task"
    /\ result.ok
    /\ \E i \in 1..Len(result.hits) : result.hits[i]
    /\ \E c \in chunks : c.embedding # NoVector

\* C14 Cache correctness (one configured model): every vector a call returns
\* for text T, on the single-text, batch and query paths, equals the vector
\* the model computes for T, in particular when it came from the cache; and
\* every cache entry holds the vector of the text its key was made from.
CacheCorrect ==
    /\ \A i \in 1..Len(result.texts) :
          result.values[i] = encode(model, result.texts[i])
    /\ \A e \in cache :
          \E t \in Texts \cup {query_text(q) : q \in Queries} \cup {c.text : c \in chunks} :
              /\ e.key = create_cache_key(t)
              /\ deserialize(e.value) = encode(model, t)

\* the query path was served from the cache an entry the single-text path
\* wrote for the same string
CacheCorrectWitness ==
    /\ result.op = "generate_query_embedding"
    /\ result.hits = <<TRUE>>

\* C15 Scenario 1: an upload of the one-sentence text file that created a
\* document leads to that document being completed (its pipeline job
\* finished, processed set, no error) with exactly one chunk.
ScenarioOne ==
    \A u \in UploadSlots :
        (/\ u \in UploadIds
         /\ uploads[u].content = SentenceContent
         /\ uploads[u].pc = "done"
         /\ Created(u))
        ~> (/\ u \in UploadIds
            /\ uploads[u].job_id \in JobIds
            /\ uploads[u].document_id \in DocIds
            /\ jobs[uploads[u].job_id].status = "finished"
            /\ documents[uploads[u].document_id].processed
            /\ documents[uploads[u].document_id].processing_error = NULL
            /\ documents[uploads[u].document_id].chunks_generated = 1
            /\ Cardinality(ChunksOf(uploads[u].document_id)) = 1)

\* the rows semantic search may return for the arguments of the last call
Qualifying ==
    {c \in chunks :
        /\ InScope(c, result.args.case_id)
        /\ c.embedding # NoVector
        /\ cosine_similarity(c.embedding, encode(model, query_text(result.texts[1])))
              > result.args.threshold}

\* C16 Semantic search: every returned chunk is in the requested case scope,
\* has an embedding and a similarity above the threshold, and is reported
\* with that similarity; the list is in non-increasing score order, has at
\* most limit entries without repetition, and no qualifying chunk left out
\* scores higher than a returned one (none is left out while there is room);
\* with no qualifying chunk the call succeeds with the empty list.
SemanticSearchCorrect ==
    result.op = "semantic_search"
    => LET found == result.values
           n == Len(found)
       IN /\ result.ok
          /\ n <= result.args.limit
          /\ \A i \in 1..n :
                /\ found[i].chunk \in Qualifying
                /\ found[i].similarity_score =
                      cosine_similarity(found[i].chunk.embedding,
                                        encode(model, query_text(result.texts[1])))
          /\ \A i, j \in 1..n :
                i < j => /\ found[i].chunk # found[j].chunk
                         /\ found[i].similarity_score >= found[j].similarity_score
          /\ \A c \in Qualifying :
                (\A i \in 1..n : found[i].chunk # c)
                => /\ n = result.args.limit
                   /\ \A i \in 1..n :
                         found[i].similarity_score
                            >= cosine_similarity(c.embedding,
                                                 encode(model, query_text(result.texts[1])))
          /\ Qualifying = {} => found = <<>>

\* a search returned its limit of results while a lower-scoring qualifying
\* chunk, a chunk of the other case and a chunk without embedding were left out
SemanticSearchCorrectWitness ==
    /\ result.op = "semantic_search"
    /\ result.args.case_id = "case1"
    /\ Len(result.values) = 1
    /\ Cardinality(Qualifying) = 2
    /\ \E c \in chunks : c.document_id = 2 /\ c.embedding # NoVector

\* a search over a corpus with chunks, none of which qualifies, returned the
\* empty list
SemanticSearchEmptyWitness ==
    /\ result.op = "semantic_search"
    /\ result.args.limit > 0
    /\ chunks # {}
    /\ result.values = <<>>
    /\ result.ok

\* C17 Hybrid search: every returned chunk is in scope and its combined
\* score is semantic_weight x its cosine similarity to the query (for a chunk
\* that has an embedding) + keyword_weight x its lexical relevance divided by
\* the largest relevance among the in-scope lexical matches (0 for a chunk
\* that does not match); the list is in non-increasing combined score order
\* and has at most limit entries.
HybridSearchCorrect ==
    result.op = "hybrid_search"
    => LET found == result.values
           query == result.texts[1]
           lexical == {c \in chunks : InScope(c, result.args.case_id) /\ ts_match(c.text, query)}
           ranks == {ts_rank(c.text, query) : c \in lexical}
           maximum == IF ranks = {} THEN 100 ELSE CHOOSE r \in ranks : \A x \in ranks : r >= x
           semantic_part(c) ==
               IF c.embedding = NoVector THEN 0
               ELSE semantic_weight
                      * cosine_similarity(c.embedding, encode(model, query_text(query)))
           lexical_part(c) ==
               IF c \in lexical
               THEN keyword_weight * normalized_relevance(ts_rank(c.text, query), maximum)
               ELSE 0
       IN /\ Len(found) <= result.args.limit
          /\ \A i \in 1..Len(found) :
                /\ InScope(found[i].chunk, result.args.case_id)
                /\ found[i].combined_score
                      = semantic_part(found[i].chunk) + lexical_part(found[i].chunk)
          /\ \A i, j \in 1..Len(found) :
                i < j => found[i].combined_score >= found[j].combined_score

\* C18: cleanup(retention_window) removes exactly the terminal jobs older
\* than the window: once it has returned, no finished, failed or canceled
\* job that ended more than the window ago is left, and the call has deleted
\* no job that is queued, started or ended within the window.
CleanupExact ==
    [][\A days \in Windows :
         cleanup_old_jobs(days) =>
            \A j \in JobIds :
               LET old == Terminal(jobs[j].status) /\ OlderThan(j, days)
               IN /\ old => jobs'[j].deleted
                  /\ (~old /\ ~jobs[j].deleted) => ~jobs'[j].deleted]_vars

\* pipeline jobs waiting in a queue
Pending == {j \in JobIds : IsPipeline(j) /\ jobs[j].status = "queued"
                           /\ \E q \in DOMAIN queues : \E i \in DOMAIN queues[q] : queues[q][i] = j}

\* C19: priority-aware dispatch: a worker that takes the next job while a
\* high-priority pipeline job and a normal- or low-priority pipeline job are
\* both pending takes the high-priority job, even when that job was enqueued
\* later.
PriorityDispatch ==
    [][\A q \in DOMAIN queues :
         Dequeue(q) =>
            LET j == Head(queues[q])
            IN (j \in Pending /\ jobs[j].priority # "high")
                  => ~\E k \in Pending : jobs[k].priority = "high"]_vars

\* job j begins the given stage in this step
Enters(j, stage) ==
    /\ jobs'[j].pc = "in"
    /\ StagesOf(jobs'[j].task_type)[jobs'[j].stage] = stage
    /\ jobs[j].pc # "in" \/ jobs[j].stage # jobs'[j].stage

\* the chunking task has committed for document d
ChunkingComplete(d) == documents[d].processed /\ documents[d].chunks_generated > 0

\* every other job of the document of job j has ended
EarlierAttemptsEnded(j) ==
    \A k \in JobIds \ {j} :
        jobs[k].document_id = jobs[j].document_id => jobs[k].pc = "done"

\* C20: idempotent resume: a pipeline job that runs for a document whose
\* extraction-complete flag (or chunking-complete flag) is already set by an
\* earlier attempt, now ended, skips that stage: it does not begin the OCR
\* stage (the chunking stage) again, so the stored text and chunk rows stay
\* as they are.
IdempotentResume ==
    [][\A j \in JobIds :
         (IsPipeline(j) /\ EarlierAttemptsEnded(j)) =>
            LET d == jobs[j].document_id
            IN /\ documents[d].ocr_completed => ~Enters(j, "ocr")
               /\ ChunkingComplete(d) => ~Enters(j, "chunking")]_vars

\* C21: stage ordering: within one pipeline job the stages begin in the
\* order OCR, chunking, embeddings, finalize; a stage begins only in the step
\* in which the stage before it commits its output; progress 100 is written
\* only when finalize commits, and the job becomes finished only after that.
StageOrdering ==
    [][\A j \in JobIds :
         IsPipeline(j) =>
            LET d == jobs[j].document_id
                in_stage(stage) == jobs[j].pc = "in" /\ StageOf(j) = stage
            IN /\ Enters(j, "ocr") => jobs[j].pc = "idle"
               /\ Enters(j, "chunking") =>
                     /\ in_stage("ocr")
                     /\ documents'[d].ocr_completed /\ documents'[d].ocr_text # NoText
               /\ Enters(j, "embeddings") =>
                     /\ in_stage("chunking")
                     /\ documents'[d].chunks_generated > 0
                     /\ \E c \in chunks' : c.document_id = d /\ c.created_by = j
               /\ Enters(j, "finalize") =>
                     /\ in_stage("embeddings")
                     /\ \A c \in chunks' : ChunkKey(c) \in jobs[j].rows => c.embedding # NoVector
               /\ (jobs'[j].progress = 100 /\ jobs[j].progress # 100) =>
                     /\ in_stage("finalize")
                     /\ documents'[d].processed /\ documents'[d].processing_error = NULL
               /\ (jobs'[j].status = "finished" /\ jobs[j].status # "finished") =>
                     jobs[j].progress = 100]_vars

\* a pipeline job has gone through its four stages and is finished
StageOrderingWitness ==
    \E j \in JobIds : /\ IsPipeline(j) /\ jobs[j].status = "finished"
                       /\ jobs[j].progress = 100 /\ jobs[j].stage = 4

\* C22: chunk set replacement: when a chunking run commits for a document,
\* also a re-run by a chunk-only job or a run that overlaps with another
\* chunking run on the document, the document's chunk rows are exactly the
\* chunks of that one run: no row of another run is left and no chunk_index
\* occurs twice.
ChunkSetReplaced ==
    [][\A j \in JobIds :
         (jobs[j].pc = "in" /\ StageOf(j) = "chunking" /\ FinishStage(j)) =>
            LET rows == {c \in chunks' : c.document_id = jobs[j].document_id}
            IN /\ \A c \in rows : c.created_by = j
               /\ \A c1, c2 \in rows : c1.chunk_index = c2.chunk_index => c1 = c2]_vars

ModelOf(v) == v[2]

\* C24: cache isolation between models: a vector a call gets from the cache
\* for a text while model M of dimension D is configured was written under
\* the same model identifier and the same dimension.
CacheIsolation ==
    [][result' # result =>
          \A i \in 1..Len(result'.hits) :
              result'.hits[i] =>
                  /\ ModelOf(result'.values[i]) = model
                  /\ VectorLength(result'.values[i]) = get_sentence_embedding_dimension(model)]_vars

\* the text a vector was computed from
TextOf(v) == v[3]

ExtractedFile == FileContent(ExtractPath)

\* a result of process_document_ocr, direct or through the OCR task
Extracted == result.op \in {"process_document_ocr", "process_document_ocr_task"}

\* the text came from one path and extraction_method names it
OnePath ==
    ~result.raised =>
        \A i \in 1..Len(result.text) :
            result.text[i].method = result.metadata.extraction_method

\* C26 as claimed: extraction path exclusivity: for a PDF, OCR is run if and
\* only if the direct per-page extraction produced usable text on zero
\* pages; the returned text comes from one of the two paths only, and
\* metadata.extraction_method names that path.
ExtractionExclusive ==
    (Extracted /\ ExtractedFile.mime_type = "application/pdf") =>
        /\ result.ocr_run <=>
              PageTexts(DirectRead(ExtractedFile), "direct_text") = <<>>
        /\ OnePath

\* C26 as amended: for a PDF, OCR is run if and only if the direct
\* extraction raised an exception or ended with usable text on zero pages;
\* the returned text comes from one of the two paths only, and
\* metadata.extraction_method names that path.
ExtractionExclusiveAmended ==
    (Extracted /\ ExtractedFile.mime_type = "application/pdf") =>
        /\ result.ocr_run <=>
              \/ DirectRaised(ExtractedFile)
              \/ PageTexts(DirectRead(ExtractedFile), "direct_text") = <<>>
        /\ OnePath

\* a PDF whose first page has a text layer and whose second page made the
\* direct extraction raise was extracted by OCR alone
ExtractionExclusiveWitness ==
    /\ Extracted
    /\ ExtractedFile.mime_type = "application/pdf"
    /\ DirectRaised(ExtractedFile)
    /\ PageTexts(DirectRead(ExtractedFile), "direct_text") # <<>>
    /\ result.ocr_run /\ ~result.raised
    /\ result.text # <<>>
    /\ result.metadata.extraction_method = "ocr"

\* C27: extraction failure condition: the OCR stage fails if and only if
\* the whole document yields no text; OCR failing on some pages while a
\* page yields text does not fail the stage, and every failed page is in
\* the metadata's list of failed pages.
ExtractionFailure ==
    result.op = "process_document_ocr_task" =>
        /\ ~result.ok <=> (result.raised \/ result.text = <<>>)
        /\ (result.ocr_run /\ ~result.raised /\ ExtractedFile.mime_type = "application/pdf") =>
              \A i \in 1..Len(ExtractedFile.pages) :
                  ExtractedFile.pages[i].scan <= 0 => i \in result.metadata.failed_pages

\* document d has a pipeline job
Scheduled(d) == \E j \in JobIds : jobs[j].document_id = d /\ IsPipeline(j)

\* C28: upload is all-or-nothing with respect to scheduling: once an upload
\* call has returned, a document record it created has a pipeline job; when
\* the enqueue failed no document record of the (case, hash) is left, so an
\* upload answered duplicate=true names a document that was queued.
UploadAllOrNothing ==
    \A u \in UploadIds :
        uploads[u].pc = "done" =>
            /\ uploads[u].document_id # NoId => Scheduled(uploads[u].document_id)
            /\ uploads[u].response = EnqueueErrorResponse =>
                  ExistingDocs(uploads[u].case_id, uploads[u].file_hash) = {}
            /\ uploads[u].response.duplicate => Scheduled(uploads[u].response.document_id)

\* C29: document status honesty: a document is reported completed only
\* when finalize has run for its current chunk set, that is only when every
\* chunk of it has an embedding; a document whose latest pipeline job failed
\* at the embedding stage is reported failed, never completed.
StatusHonest ==
    \A d \in DocIds :
        /\ processing_status(d) = "completed" =>
              \A c \in ChunksOf(d) : c.embedding # NoVector
        /\ LET j == latest_job(d)
           IN (j # NoId /\ IsPipeline(j) /\ jobs[j].status = "failed"
                        /\ StageOf(j) = "embeddings")
                 => processing_status(d) = "failed"

\* C30: guardian PR-size gate: check_pr_size returns False and records a
\* "PR too large" violation exactly when the changed lines of the diff
\* summary (insertions plus deletions) exceed the policy's max_lines;
\* otherwise it returns True and records no violation.
PrSizeGate ==
    result.op = "check_pr_size" =>
        LET stat == Repository.stat
            too_large == stat.insertions + stat.deletions > Repository.max_lines
        IN IF too_large
           THEN /\ ~result.returned
                /\ Len(result.violations) = 1
                /\ result.violations[1].message = "PR too large"
           ELSE /\ result.returned
                /\ result.violations = <<>>

====
